---- MODULE Spec2Model ----
(***************************************************************************)
(* vm-installer: preflight check, configuration loading and the Installer  *)
(* pipeline (create -> run -> [compress] -> build -> push) together with   *)
(* the input-wait goroutine spawned by runMachine and the emulator process *)
(* it signals.  External tools and the filesystem are the environment:     *)
(* their outcomes are chosen nondeterministically.                         *)
(***************************************************************************)
EXTENDS Integers, Sequences, FiniteSets, TLC

\* Bound on the number of times the emulator writes the disk image while it
\* runs (each write gives the image file a new content).
MaxWrites == 2

\* var processList (main.go:9)
processList == <<"docker", "qemu-system-x86_64", "qemu-img">>

\* const imageFilename (part_000:16)
imageFilename == "base.qcow2"

\* The five pipeline stages called by Install, in the order of its text.
Stages == {"create", "run", "compress", "build", "push"}

StageOrder == <<"create", "run", "compress", "build", "push">>

\* Command-line values the operator may give.  "" is the flag's default for
\* -iso and -image; "unset" stands for the -size flag not being given.
IsoArgs == {"", "/tmp/os.iso"}
ImageArgs == {"", "registry.example/base:1"}
SizeArgs == {"unset", "20G"}

\* Installer.imageFilepath and the two other paths the pipeline uses, as the
\* names of the files inside the working directory.
tempFilename == imageFilename \o ".temp"
dockerFilename == "Dockerfile"
FileNames == {imageFilename, tempFilename, dockerFilename}

\* filepath.Join(dir, name): a path as the sequence of its components.
Join(dir, name) == <<dir, name>>

\* filepath.Base(path): the last component of a path.
Base(path) == path[Len(path)]

\* A file that does not exist.
Absent == [kind |-> "absent", ver |-> 0]

\* A file cut short by a tool that failed while writing it.
Partial == [kind |-> "partial", ver |-> 0]

\* qemu-img create: a fresh, empty qcow2 image.
Blank == [kind |-> "qcow2", ver |-> 0]

\* qemu-img convert -O qcow2 -c: the compressed encoding of an image.
Convert(img) == [kind |-> "qcow2c", ver |-> img.ver]

\* fmt.Sprintf("FROM busybox\nCOPY %s /base_image/", imageFilename)
DockerfileContents(name) == [kind |-> "dockerfile", copy |-> name]

NoFiles == [n \in FileNames |-> Absent]

VARIABLES
  pc,          \* position of the main goroutine
  pfIdx,       \* index of the preflight loop in processList
  resolvable,  \* the executables `which` resolves (environment)
  argv,        \* the command-line flags given (environment)
  config,      \* Config built by newConfigFromFlags
  contextDir,  \* Installer.contextDir ("" when TempDir failed)
  newErr,      \* the error newInstaller returned
  dirExists,   \* whether the working directory exists on disk
  dirCreated,  \* whether the working directory was ever created
  fs,          \* files of the working directory
  invoked,     \* the stages Install has called, in call order
  stageErr,    \* per stage: "none" (not called), "pending", "nil" or its error
  execs,       \* external processes started by the program, in order
  err,         \* runMachine's local variable err, captured by the goroutine
  proc,        \* emulator process: "none", "running", "exited", "reaped"
  procStatus,  \* what Wait reports for the emulator: "nil" or "ExitError"
  g,           \* position of the input-wait goroutine
  sigRes,      \* value returned by cmd.Process.Signal, before it is stored
  signals,     \* number of interrupts delivered to the emulator
  writes,      \* number of image writes the emulator has made
  imageBefore, \* content of the image file when compressImage was entered
  descBefore,  \* whether the Dockerfile existed when docker build was started
  ret,         \* the error Install is about to return
  installRet,  \* what Install returned ("none" while it has not)
  exitCode,    \* process exit code (-1 while the process runs)
  exitReason,  \* which statement ended the process
  input,       \* what reader.ReadString returned: "none", "line" or "eof"
  runRet,      \* the error runMachine returned ("none" while it has not)
  ownExit      \* whether the emulator exited before ReadString returned

vars == <<pc, pfIdx, resolvable, argv, config, contextDir, newErr, dirExists,
          dirCreated, fs, invoked, stageErr, execs, err, proc, procStatus, g,
          sigRes, signals, writes, imageBefore, descBefore, ret, installRet,
          exitCode, exitReason, input, runRet, ownExit>>

NoConfig == [isoFilepath |-> "", imageSize |-> "", image |-> "",
             kvm |-> FALSE, compress |-> FALSE]

Init ==
  /\ pc = "preflight"
  /\ pfIdx = 1
  /\ resolvable \in SUBSET {processList[k] : k \in 1..Len(processList)}
  /\ argv \in [iso : IsoArgs, size : SizeArgs, image : ImageArgs,
               kvm : BOOLEAN, compress : BOOLEAN]
  /\ config = NoConfig
  /\ contextDir = ""
  /\ newErr = "nil"
  /\ dirExists = FALSE
  /\ dirCreated = FALSE
  /\ fs = NoFiles
  /\ invoked = <<>>
  /\ stageErr = [s \in Stages |-> "none"]
  /\ execs = <<>>
  /\ err = "nil"
  /\ proc = "none"
  /\ procStatus = "nil"
  /\ g = "none"
  /\ sigRes = "nil"
  /\ signals = 0
  /\ writes = 0
  /\ imageBefore = Absent
  /\ descBefore = FALSE
  /\ ret = "nil"
  /\ installRet = "none"
  /\ exitCode = -1
  /\ exitReason = "none"
  /\ input = "none"
  /\ runRet = "none"
  /\ ownExit = FALSE

Exec(cmd, arg) == [cmd |-> cmd, arg |-> arg]

\* os.Exit(code) / log.Fatal: the process ends at once; no deferred call runs.
Exit(code, reason) ==
  /\ pc' = "exited"
  /\ exitCode' = code
  /\ exitReason' = reason

----------------------------------------------------------------------------
\* main.go

\* getFilepath: run `which processName`; its error is nil iff the name resolves.
getFilepath(processName) ==
  IF processName \in resolvable THEN "nil" ELSE "ExitError"

\* Mutant: a missing dependency is only logged and the loop goes on.
PreflightLogOnly ==
  /\ pc = "preflight"
  /\ execs' = Append(execs, Exec("which", processList[pfIdx]))
  /\ pfIdx' = pfIdx + 1
  /\ pc' = IF pfIdx = Len(processList) THEN "config" ELSE "preflight"
  /\ UNCHANGED <<exitCode, exitReason>>
  /\ UNCHANGED <<resolvable, argv, config, contextDir, newErr, dirExists,
                 dirCreated, fs, invoked, stageErr, err, proc, procStatus, g,
                 sigRes, signals, writes, imageBefore, descBefore, ret,
                 installRet>>
  /\ UNCHANGED <<input, runRet, ownExit>>

\* main, lines 20-25: one iteration of the loop over processList.
Preflight ==
  /\ pc = "preflight"
  /\ execs' = Append(execs, Exec("which", processList[pfIdx]))
  /\ IF getFilepath(processList[pfIdx]) # "nil"
       THEN /\ Exit(1, "missing:" \o processList[pfIdx])
            /\ UNCHANGED pfIdx
       ELSE /\ pfIdx' = pfIdx + 1
            /\ pc' = IF pfIdx = Len(processList) THEN "config" ELSE "preflight"
            /\ UNCHANGED <<exitCode, exitReason>>
  /\ UNCHANGED <<resolvable, argv, config, contextDir, newErr, dirExists,
                 dirCreated, fs, invoked, stageErr, err, proc, procStatus, g,
                 sigRes, signals, writes, imageBefore, descBefore, ret,
                 installRet>>
  /\ UNCHANGED <<input, runRet, ownExit>>

----------------------------------------------------------------------------
\* Configuration

\* flag.StringVar / flag.BoolVar / flag.Parse: flags not given keep their
\* defaults ("" for -iso and -image, "50G" for -size, false for the booleans).
ParseFlags(a) ==
  [isoFilepath |-> a.iso,
   imageSize   |-> IF a.size = "unset" THEN "50G" ELSE a.size,
   image       |-> a.image,
   kvm         |-> a.kvm,
   compress    |-> a.compress]

\* Mutant: the check requires both fields to be empty before it fails.
ConfigInvalidBoth(c) == c.isoFilepath = "" /\ c.image = ""

\* newConfigFromFlags, line 34.
ConfigInvalid(c) == c.isoFilepath = "" \/ c.image = ""

\* newConfigFromFlags, called from main line 27.
NewConfigFromFlags ==
  /\ pc = "config"
  /\ config' = ParseFlags(argv)
  /\ IF ConfigInvalid(ParseFlags(argv))
       THEN Exit(1, "usage")
       ELSE /\ pc' = "newInstaller"
            /\ UNCHANGED <<exitCode, exitReason>>
  /\ UNCHANGED <<pfIdx, resolvable, argv, contextDir, newErr, dirExists,
                 dirCreated, fs, invoked, stageErr, execs, err, proc,
                 procStatus, g, sigRes, signals, writes, imageBefore,
                 descBefore, ret, installRet>>
  /\ UNCHANGED <<input, runRet, ownExit>>

\* newInstaller: ioutil.TempDir creates the directory or fails.
NewInstaller ==
  /\ pc = "newInstaller"
  /\ \E ok \in BOOLEAN :
       IF ok
         THEN /\ contextDir' = "/tmp/docker-context1"
              /\ newErr' = "nil"
              /\ dirExists' = TRUE
              /\ dirCreated' = TRUE
         ELSE /\ contextDir' = ""
              /\ newErr' = "ErrTempDir"
              /\ UNCHANGED <<dirExists, dirCreated>>
  /\ pc' = "installerCheck"
  /\ UNCHANGED <<pfIdx, resolvable, argv, config, fs, invoked, stageErr, execs,
                 err, proc, procStatus, g, sigRes, signals, writes,
                 imageBefore, descBefore, ret, installRet, exitCode,
                 exitReason>>
  /\ UNCHANGED <<input, runRet, ownExit>>

\* Installer.imageFilepath = filepath.Join(contextDir, imageFilename)
imageFilepath == Join(contextDir, imageFilename)

\* Mutant: the error newInstaller returned is not looked at.
MainCheckInstallerIgnoresErr ==
  /\ pc = "installerCheck"
  /\ pc' = "install"
  /\ UNCHANGED <<exitCode, exitReason>>
  /\ UNCHANGED <<pfIdx, resolvable, argv, config, contextDir, newErr,
                 dirExists, dirCreated, fs, invoked, stageErr, execs, err,
                 proc, procStatus, g, sigRes, signals, writes, imageBefore,
                 descBefore, ret, installRet>>
  /\ UNCHANGED <<input, runRet, ownExit>>

\* main, lines 28-31.
MainCheckInstaller ==
  /\ pc = "installerCheck"
  /\ IF newErr # "nil"
       THEN Exit(1, "newInstaller")
       ELSE /\ pc' = "install"
            /\ UNCHANGED <<exitCode, exitReason>>
  /\ UNCHANGED <<pfIdx, resolvable, argv, config, contextDir, newErr,
                 dirExists, dirCreated, fs, invoked, stageErr, execs, err,
                 proc, procStatus, g, sigRes, signals, writes, imageBefore,
                 descBefore, ret, installRet>>
  /\ UNCHANGED <<input, runRet, ownExit>>

----------------------------------------------------------------------------
\* Installer.Install

\* Mutant: the container build is started before the optional compression.
InstallNextBuildFirst(stage, e, compress) ==
  IF e # "nil" THEN "defer"
  ELSE CASE stage = "create"   -> "run"
         [] stage = "run"      -> "build"
         [] stage = "build"    -> IF compress THEN "compress" ELSE "push"
         [] stage = "compress" -> "push"
         [] stage = "push"     -> "defer"

\* Install, lines 58-94: where the main flow goes after `stage` returned e.
\* "defer" is the return statement (the deferred RemoveAll runs there).
InstallNext(stage, e, compress) ==
  IF e # "nil" THEN "defer"
  ELSE CASE stage = "create"   -> "run"
         [] stage = "run"      -> IF compress THEN "compress" ELSE "build"
         [] stage = "compress" -> "build"
         [] stage = "build"    -> "push"
         [] stage = "push"     -> "defer"

\* The part of Install that follows a stage call: `if err != nil { return err }`
\* or fall through to the next stage; `return nil` after push.
AfterStage(stage, e) ==
  /\ pc' = InstallNext(stage, e, config.compress)
  /\ ret' = IF InstallNext(stage, e, config.compress) = "defer" THEN e ELSE ret

\* Mutant: `defer` is missing, so the directory is removed on entry.
InstallEnterRemovesNow ==
  /\ pc = "install"
  /\ pc' = "create"
  /\ dirExists' = FALSE
  /\ fs' = NoFiles
  /\ UNCHANGED <<pfIdx, resolvable, argv, config, contextDir, newErr,
                 dirCreated, invoked, stageErr, execs, err, proc, procStatus,
                 g, sigRes, signals, writes, imageBefore, descBefore, ret,
                 installRet, exitCode, exitReason>>
  /\ UNCHANGED <<input, runRet, ownExit>>

\* Install, lines 55-56: log the directory and register the deferred removal.
InstallEnter ==
  /\ pc = "install"
  /\ pc' = "create"
  /\ UNCHANGED <<pfIdx, resolvable, argv, config, contextDir, newErr,
                 dirExists, dirCreated, fs, invoked, stageErr, execs, err,
                 proc, procStatus, g, sigRes, signals, writes, imageBefore,
                 descBefore, ret, installRet, exitCode, exitReason>>
  /\ UNCHANGED <<input, runRet, ownExit>>

\* createImage (called at line 59): qemu-img create -f qcow2 <image> <size>.
CreateImage ==
  /\ pc = "create"
  /\ invoked' = Append(invoked, "create")
  /\ execs' = Append(execs, Exec("qemu-img create", config.imageSize))
  /\ \E ok \in BOOLEAN, left \in {Absent, Partial} :
       LET e == IF ok THEN "nil" ELSE "ExitError:create" IN
       /\ fs' = [fs EXCEPT ![Base(imageFilepath)] = IF ok THEN Blank ELSE left]
       /\ stageErr' = [stageErr EXCEPT !["create"] = e]
       /\ AfterStage("create", e)
  /\ UNCHANGED <<pfIdx, resolvable, argv, config, contextDir, newErr,
                 dirExists, dirCreated, err, proc, procStatus, g, sigRes,
                 signals, writes, imageBefore, descBefore, installRet,
                 exitCode, exitReason>>
  /\ UNCHANGED <<input, runRet, ownExit>>

----------------------------------------------------------------------------
\* Installer.runMachine, the goroutine it starts, and the emulator

\* runMachine, lines 147-155: the emulator's arguments; -enable-kvm is
\* inserted right after the program name when config.kvm is set.
RunArgs(c) ==
  LET base == <<"qemu-system-x86_64", "-m", "size=1024", "-smp", "cpus=1",
                "-cdrom", c.isoFilepath, "-vnc", "0.0.0.0:0", "-drive",
                <<"file=", imageFilepath>> >>
  IN IF c.kvm THEN <<base[1], "-enable-kvm">> \o Tail(base) ELSE base

\* runMachine, lines 147-163 (called at Install line 66): cmd.Start(); on
\* failure return its error, else start the input-wait goroutine.
RunStart ==
  /\ pc = "run"
  /\ invoked' = Append(invoked, "run")
  /\ execs' = Append(execs, Exec("qemu-system-x86_64", RunArgs(config)))
  /\ \E ok \in BOOLEAN :
       IF ok
         THEN /\ err' = "nil"
              /\ proc' = "running"
              /\ g' = "reading"
              /\ stageErr' = [stageErr EXCEPT !["run"] = "pending"]
              /\ pc' = "wait"
              /\ UNCHANGED <<ret, runRet>>
         ELSE /\ err' = "ErrStart"
              /\ stageErr' = [stageErr EXCEPT !["run"] = "ErrStart"]
              /\ AfterStage("run", "ErrStart")
              /\ runRet' = "ErrStart"
              /\ UNCHANGED <<proc, g>>
  /\ UNCHANGED <<pfIdx, resolvable, argv, config, contextDir, newErr,
                 dirExists, dirCreated, fs, procStatus, sigRes, signals,
                 writes, imageBefore, descBefore, installRet, exitCode,
                 exitReason>>
  /\ UNCHANGED <<input, ownExit>>

\* The emulator installs onto the attached disk: the image file changes.
EmulatorWrite ==
  /\ proc = "running"
  /\ dirExists
  /\ writes < MaxWrites
  /\ writes' = writes + 1
  /\ fs' = [fs EXCEPT ![Base(imageFilepath)] =
                       [kind |-> "qcow2", ver |-> writes + 1]]
  /\ UNCHANGED <<pc, pfIdx, resolvable, argv, config, contextDir, newErr,
                 dirExists, dirCreated, invoked, stageErr, execs, err, proc,
                 procStatus, g, sigRes, signals, imageBefore, descBefore, ret,
                 installRet, exitCode, exitReason>>
  /\ UNCHANGED <<input, runRet, ownExit>>

\* The emulator process ends, on its own or after an interrupt, with a zero
\* or a nonzero status.
EmulatorExit ==
  /\ proc = "running"
  /\ proc' = "exited"
  /\ procStatus' \in {"nil", "ExitError:run"}
  /\ UNCHANGED <<pc, pfIdx, resolvable, argv, config, contextDir, newErr,
                 dirExists, dirCreated, fs, invoked, stageErr, execs, err, g,
                 sigRes, signals, writes, imageBefore, descBefore, ret,
                 installRet, exitCode, exitReason>>
  /\ ownExit' = (input = "none")
  /\ UNCHANGED <<input, runRet>>

\* Mutant: the main flow joins the input-wait goroutine before cmd.Wait.
RunWaitJoinsGoroutine ==
  /\ pc = "wait"
  /\ proc = "exited"
  /\ g = "done"
  /\ proc' = "reaped"
  /\ err' = procStatus
  /\ stageErr' = [stageErr EXCEPT !["run"] = procStatus]
  /\ pc' = "runReturn"
  /\ UNCHANGED <<pfIdx, resolvable, argv, config, contextDir, newErr,
                 dirExists, dirCreated, fs, invoked, execs, procStatus, g,
                 sigRes, signals, writes, imageBefore, descBefore, ret,
                 installRet, exitCode, exitReason>>
  /\ UNCHANGED <<input, runRet, ownExit>>

\* runMachine, line 174: `err = cmd.Wait()` returns once the emulator has
\* exited, reaps it and stores the result in the shared variable err.
RunWait ==
  /\ pc = "wait"
  /\ proc = "exited"
  /\ proc' = "reaped"
  /\ err' = procStatus
  /\ stageErr' = [stageErr EXCEPT !["run"] = procStatus]
  /\ pc' = "runReturn"
  /\ UNCHANGED <<pfIdx, resolvable, argv, config, contextDir, newErr,
                 dirExists, dirCreated, fs, invoked, execs, procStatus, g,
                 sigRes, signals, writes, imageBefore, descBefore, ret,
                 installRet, exitCode, exitReason>>
  /\ UNCHANGED <<input, runRet, ownExit>>

\* The values `return out.String(), err` at line 175 can yield.  err is
\* written by the goroutine at line 168 with no synchronisation (a data
\* race): the read gives what memory holds, or the value the main goroutine
\* stored itself when the build keeps it in a register.
ReturnedErr == {err, procStatus}

\* runMachine, line 175, and Install lines 67-78.
RunReturn ==
  /\ pc = "runReturn"
  /\ \E e \in ReturnedErr :
       /\ AfterStage("run", e)
       /\ runRet' = e
  /\ UNCHANGED <<pfIdx, resolvable, argv, config, contextDir, newErr,
                 dirExists, dirCreated, fs, invoked, stageErr, execs, err,
                 proc, procStatus, g, sigRes, signals, writes, imageBefore,
                 descBefore, installRet, exitCode, exitReason>>
  /\ UNCHANGED <<input, ownExit>>

\* goroutine, lines 164-166: reader.ReadString returns, with a line the
\* operator typed or with an error such as end of input; `_, _ =` drops both.
GReadInput ==
  /\ g = "reading"
  /\ pc # "exited"
  /\ g' = "signal"
  /\ UNCHANGED <<pc, pfIdx, resolvable, argv, config, contextDir, newErr,
                 dirExists, dirCreated, fs, invoked, stageErr, execs, err,
                 proc, procStatus, sigRes, signals, writes, imageBefore,
                 descBefore, ret, installRet, exitCode, exitReason>>
  /\ input' \in {"line", "eof"}
  /\ UNCHANGED <<runRet, ownExit>>

\* os.Process.Signal: an error once the process has been waited for
\* ("os: process already finished"), else the signal is delivered.
Signal(p) == IF p = "reaped" THEN "ErrProcessDone" ELSE "nil"

\* goroutine, line 168, the call cmd.Process.Signal(os.Interrupt).
GSignal ==
  /\ g = "signal"
  /\ pc # "exited"
  /\ sigRes' = Signal(proc)
  /\ signals' = IF Signal(proc) = "nil" THEN signals + 1 ELSE signals
  /\ g' = "store"
  /\ UNCHANGED <<pc, pfIdx, resolvable, argv, config, contextDir, newErr,
                 dirExists, dirCreated, fs, invoked, stageErr, execs, err,
                 proc, procStatus, writes, imageBefore, descBefore, ret,
                 installRet, exitCode, exitReason>>
  /\ UNCHANGED <<input, runRet, ownExit>>

\* goroutine, line 168, the assignment `err = ...` to runMachine's variable.
GStore ==
  /\ g = "store"
  /\ pc # "exited"
  /\ err' = sigRes
  /\ g' = "check"
  /\ UNCHANGED <<pc, pfIdx, resolvable, argv, config, contextDir, newErr,
                 dirExists, dirCreated, fs, invoked, stageErr, execs, proc,
                 procStatus, sigRes, signals, writes, imageBefore, descBefore,
                 ret, installRet, exitCode, exitReason>>
  /\ UNCHANGED <<input, runRet, ownExit>>

\* The values `if err != nil` at line 169 can read: memory, or the value the
\* goroutine stored itself (the same data race as ReturnedErr).
CheckedErr == {err, sigRes}

\* goroutine, lines 169-171: log.Fatal(err) ends the whole process.
GCheck ==
  /\ g = "check"
  /\ pc # "exited"
  /\ \E e \in CheckedErr :
       IF e # "nil"
         THEN /\ Exit(1, "signalFatal")
              /\ g' = "fatal"
         ELSE /\ g' = "done"
              /\ UNCHANGED <<pc, exitCode, exitReason>>
  /\ UNCHANGED <<pfIdx, resolvable, argv, config, contextDir, newErr,
                 dirExists, dirCreated, fs, invoked, stageErr, execs, err,
                 proc, procStatus, sigRes, signals, writes, imageBefore,
                 descBefore, ret, installRet>>
  /\ UNCHANGED <<input, runRet, ownExit>>

----------------------------------------------------------------------------
\* Installer.compressImage, buildImage, pushImage

\* Mutant: the conversion writes its output over the image file itself.
compressImageInPlace(f, convOk, renOk, left) ==
  IF ~convOk
    THEN [fs |-> [f EXCEPT ![Base(imageFilepath)] = left],
          err |-> "ExitError:convert"]
    ELSE [fs |-> [f EXCEPT ![Base(imageFilepath)] = Convert(f[Base(imageFilepath)])],
          err |-> "nil"]

\* Mutant: the converted file is copied over the image and left in place.
compressImageCopy(f, convOk, renOk, left) ==
  IF ~convOk
    THEN [fs |-> [f EXCEPT ![tempFilename] = left], err |-> "ExitError:convert"]
    ELSE IF ~renOk
      THEN [fs |-> [f EXCEPT ![tempFilename] = Convert(f[Base(imageFilepath)])],
            err |-> "ErrRename"]
      ELSE [fs |-> [f EXCEPT ![Base(imageFilepath)] = Convert(f[Base(imageFilepath)]),
                             ![tempFilename] = Convert(f[Base(imageFilepath)])],
            err |-> "nil"]

\* compressImage, lines 106-116, on the files f: qemu-img convert writes the
\* compressed image to <image>.temp (convOk: it exits zero; left: what a
\* failed conversion leaves there); os.Rename then replaces the image (renOk).
compressImage(f, convOk, renOk, left) ==
  IF ~convOk
    THEN [fs |-> [f EXCEPT ![tempFilename] = left], err |-> "ExitError:convert"]
    ELSE IF ~renOk
      THEN [fs |-> [f EXCEPT ![tempFilename] = Convert(f[Base(imageFilepath)])],
            err |-> "ErrRename"]
      ELSE [fs |-> [f EXCEPT ![Base(imageFilepath)] = Convert(f[Base(imageFilepath)]),
                             ![tempFilename] = Absent],
            err |-> "nil"]

\* compressImage as called at Install line 74.
CompressImage ==
  /\ pc = "compress"
  /\ invoked' = Append(invoked, "compress")
  /\ execs' = Append(execs, Exec("qemu-img convert", tempFilename))
  /\ imageBefore' = fs[Base(imageFilepath)]
  /\ \E convOk \in BOOLEAN, renOk \in BOOLEAN, left \in {Absent, Partial} :
       LET r == compressImage(fs, convOk, renOk, left) IN
       /\ fs' = r.fs
       /\ stageErr' = [stageErr EXCEPT !["compress"] = r.err]
       /\ AfterStage("compress", r.err)
  /\ UNCHANGED <<pfIdx, resolvable, argv, config, contextDir, newErr,
                 dirExists, dirCreated, err, proc, procStatus, g, sigRes,
                 signals, writes, descBefore, installRet, exitCode,
                 exitReason>>
  /\ UNCHANGED <<input, runRet, ownExit>>

\* writeDockerfile, lines 140-143: the descriptor names the image by its base
\* filename.
writeDockerfile(f, ok) ==
  IF ok
    THEN [fs |-> [f EXCEPT ![dockerFilename] =
                              DockerfileContents(Base(imageFilepath))],
          err |-> "nil"]
    ELSE [fs |-> f, err |-> "ErrWriteFile"]

\* Mutant: the error of writeDockerfile is dropped and docker build runs anyway.
BuildImageIgnoresWriteErr ==
  /\ pc = "build"
  /\ invoked' = Append(invoked, "build")
  /\ \E wOk \in BOOLEAN, bOk \in BOOLEAN :
       LET w == writeDockerfile(fs, wOk)
           e == IF bOk THEN "nil" ELSE "ExitError:build"
       IN
       /\ fs' = w.fs
       /\ execs' = Append(execs, Exec("docker build", config.image))
       /\ descBefore' = (w.fs[dockerFilename] # Absent)
       /\ stageErr' = [stageErr EXCEPT !["build"] =
                                    IF w.err # "nil" THEN w.err ELSE e]
       /\ AfterStage("build", e)
  /\ UNCHANGED <<pfIdx, resolvable, argv, config, contextDir, newErr,
                 dirExists, dirCreated, err, proc, procStatus, g, sigRes,
                 signals, writes, imageBefore, installRet, exitCode,
                 exitReason>>
  /\ UNCHANGED <<input, runRet, ownExit>>

\* buildImage, lines 120-128 (called at Install line 81): write the
\* Dockerfile, and only then run docker build -t <image> <contextDir>.
BuildImage ==
  /\ pc = "build"
  /\ invoked' = Append(invoked, "build")
  /\ \E wOk \in BOOLEAN, bOk \in BOOLEAN :
       LET w == writeDockerfile(fs, wOk)
           e == IF w.err # "nil" THEN w.err
                ELSE IF bOk THEN "nil" ELSE "ExitError:build"
       IN
       /\ fs' = w.fs
       /\ execs' = IF w.err # "nil" THEN execs
                   ELSE Append(execs, Exec("docker build", config.image))
       /\ descBefore' = IF w.err # "nil" THEN descBefore
                        ELSE w.fs[dockerFilename] # Absent
       /\ stageErr' = [stageErr EXCEPT !["build"] = e]
       /\ AfterStage("build", e)
  /\ UNCHANGED <<pfIdx, resolvable, argv, config, contextDir, newErr,
                 dirExists, dirCreated, err, proc, procStatus, g, sigRes,
                 signals, writes, imageBefore, installRet, exitCode,
                 exitReason>>
  /\ UNCHANGED <<input, runRet, ownExit>>

\* pushImage, lines 132-136 (called at Install line 88): docker push <image>.
PushImage ==
  /\ pc = "push"
  /\ invoked' = Append(invoked, "push")
  /\ execs' = Append(execs, Exec("docker push", config.image))
  /\ \E ok \in BOOLEAN :
       LET e == IF ok THEN "nil" ELSE "ExitError:push" IN
       /\ stageErr' = [stageErr EXCEPT !["push"] = e]
       /\ AfterStage("push", e)
  /\ UNCHANGED <<pfIdx, resolvable, argv, config, contextDir, newErr,
                 dirExists, dirCreated, fs, err, proc, procStatus, g, sigRes,
                 signals, writes, imageBefore, descBefore, installRet,
                 exitCode, exitReason>>
  /\ UNCHANGED <<input, runRet, ownExit>>

\* Mutant: the directory is removed at the end of Install's body instead of
\* by a deferred call, so the error returns skip it.
InstallReturnNoDefer ==
  /\ pc = "defer"
  /\ dirExists' = IF ret = "nil" THEN FALSE ELSE dirExists
  /\ fs' = IF ret = "nil" THEN NoFiles ELSE fs
  /\ installRet' = ret
  /\ pc' = "installCheck"
  /\ UNCHANGED <<pfIdx, resolvable, argv, config, contextDir, newErr,
                 dirCreated, invoked, stageErr, execs, err, proc, procStatus,
                 g, sigRes, signals, writes, imageBefore, descBefore, ret,
                 exitCode, exitReason>>
  /\ UNCHANGED <<input, runRet, ownExit>>

\* Install's return (lines 62, 69, 76, 84, 91, 94): the deferred
\* os.RemoveAll(i.contextDir) of line 56 runs, then the caller gets the error.
InstallReturn ==
  /\ pc = "defer"
  /\ dirExists' = FALSE
  /\ fs' = NoFiles
  /\ installRet' = ret
  /\ pc' = "installCheck"
  /\ UNCHANGED <<pfIdx, resolvable, argv, config, contextDir, newErr,
                 dirCreated, invoked, stageErr, execs, err, proc, procStatus,
                 g, sigRes, signals, writes, imageBefore, descBefore, ret,
                 exitCode, exitReason>>
  /\ UNCHANGED <<input, runRet, ownExit>>

\* main, lines 32-36: log.Fatal on an error, else "Done." and a normal exit.
MainCheckInstall ==
  /\ pc = "installCheck"
  /\ IF installRet # "nil" THEN Exit(1, "install") ELSE Exit(0, "done")
  /\ UNCHANGED <<pfIdx, resolvable, argv, config, contextDir, newErr,
                 dirExists, dirCreated, fs, invoked, stageErr, execs, err,
                 proc, procStatus, g, sigRes, signals, writes, imageBefore,
                 descBefore, ret, installRet>>
  /\ UNCHANGED <<input, runRet, ownExit>>

----------------------------------------------------------------------------
Next ==
  \/ Preflight
  \/ NewConfigFromFlags
  \/ NewInstaller
  \/ MainCheckInstaller
  \/ InstallEnter
  \/ CreateImage
  \/ RunStart
  \/ EmulatorWrite
  \/ EmulatorExit
  \/ RunWait
  \/ RunReturn
  \/ GReadInput
  \/ GSignal
  \/ GStore
  \/ GCheck
  \/ CompressImage
  \/ BuildImage
  \/ PushImage
  \/ InstallReturn
  \/ MainCheckInstall

Spec == Init /\ [][Next]_vars

\* The steps of the main goroutine.
MainNext ==
  \/ Preflight
  \/ NewConfigFromFlags
  \/ NewInstaller
  \/ MainCheckInstaller
  \/ InstallEnter
  \/ CreateImage
  \/ RunStart
  \/ RunWait
  \/ RunReturn
  \/ CompressImage
  \/ BuildImage
  \/ PushImage
  \/ InstallReturn
  \/ MainCheckInstall

\* The Go scheduler keeps running a goroutine that can take a step, and every
\* external tool the main goroutine runs to completion terminates.  Operator
\* input (GReadInput) and the emulator (EmulatorWrite, EmulatorExit) are the
\* environment: nothing forces them to happen.
FairSpec ==
  /\ Spec
  /\ WF_vars(MainNext)
  /\ WF_vars(GSignal)
  /\ WF_vars(GStore)
  /\ WF_vars(GCheck)

----------------------------------------------------------------------------
\* Properties

Range(q) == {q[k] : k \in 1..Len(q)}

\* Position of a stage in the order create, run, compress, build, push.
Pos(s) == CHOOSE k \in 1..Len(StageOrder) : StageOrder[k] = s

\* A stage failed: its tool (or file operation) reported an error.
Failed(s) == stageErr[s] \notin {"none", "pending", "nil"}

\* The stages the configuration asks for.
Applicable == IF config.compress THEN Stages ELSE Stages \ {"compress"}

AllResolvable == \A k \in 1..Len(processList) : processList[k] \in resolvable

\* Index in processList of the first executable that does not resolve.
FirstMissing ==
  CHOOSE k \in 1..Len(processList) :
    /\ processList[k] \notin resolvable
    /\ \A j \in 1..(k - 1) : processList[j] \in resolvable

\* C1: whenever Install has returned, with nil or with any stage's error, the
\* working directory created by newInstaller no longer exists.
C1_InstallReturnRemovesDir ==
  installRet # "none" => (~dirExists /\ fs = NoFiles)

\* Install returned a stage's error after the directory had been created.
C1_Witness ==
  /\ installRet = "ExitError:build"
  /\ dirCreated
  /\ pc = "installCheck"

\* C2: in every terminated run in which the working directory was created
\* (normal exit, stage-failure exit, or log.Fatal in the input-wait
\* goroutine), the directory does not exist once the process has exited.
C2_DirRemovedAtExit ==
  (pc = "exited" /\ dirCreated) => ~dirExists

\* C3: a stage is invoked only if every stage invoked before it in the same
\* Install call completed successfully.
C3_StageGated ==
  \A k \in 1..Len(invoked) :
    \A j \in 1..(k - 1) : stageErr[invoked[j]] = "nil"

\* C4: Install returns nil iff every applicable stage succeeded, and
\* otherwise returns exactly the error of the single stage that failed.
C4_FirstError ==
  installRet # "none" =>
    /\ (installRet = "nil") <=> (\A s \in Applicable : stageErr[s] = "nil")
    /\ installRet # "nil" =>
         /\ Cardinality({s \in Stages : Failed(s)}) = 1
         /\ \E s \in Stages : Failed(s) /\ stageErr[s] = installRet

\* C5: within one Install call the stages are invoked in the strict order
\* create, run, compress, build, push, each at most once.
C5_StrictOrder ==
  \A j \in 1..Len(invoked) :
    \A k \in 1..Len(invoked) : j < k => Pos(invoked[j]) < Pos(invoked[k])

\* All five stages were invoked in one Install call.
C5_Witness ==
  invoked = StageOrder

\* C6: if the compress stage fails (conversion or rename), the image file
\* still has the content it had when the stage started, for as long as the
\* working directory exists, and the pipeline aborts (no build, no push).
C6_CompressFailureKeepsImage ==
  Failed("compress") =>
    /\ dirExists => fs[imageFilename] = imageBefore
    /\ "build" \notin Range(invoked)
    /\ "push" \notin Range(invoked)
    /\ pc \in {"defer", "installCheck", "exited"}

\* The conversion of an image the emulator wrote has failed, and Install has
\* not returned yet.
C6_Witness ==
  /\ stageErr["compress"] = "ExitError:convert"
  /\ fs[tempFilename] = Partial
  /\ imageBefore.ver >= 1
  /\ pc = "defer"

\* C7: if the compress stage succeeds, the file at the image path holds the
\* converted content and the sibling <image>.temp no longer exists (for as
\* long as the working directory exists).
C7_CompressSuccessReplacesImage ==
  (stageErr["compress"] = "nil" /\ dirExists) =>
    /\ fs[imageFilename] = Convert(imageBefore)
    /\ fs[imageFilename] # imageBefore
    /\ fs[tempFilename] = Absent

\* The compression of an image the emulator wrote has succeeded.
C7_Witness ==
  /\ stageErr["compress"] = "nil"
  /\ dirExists
  /\ imageBefore.kind = "qcow2"
  /\ imageBefore.ver >= 1

\* C8 as stated: for a configuration whose iso path or image identifier is
\* empty, configuration loading fails before the program has started any
\* external process.
C8_FailsBeforeAnyProcess ==
  (argv.iso = "" \/ argv.image = "") =>
    /\ execs = <<>>
    /\ pc = "exited" => exitReason = "usage"

\* C8 amended: for a configuration whose iso path or image identifier is
\* empty, the program exits nonzero no later than configuration loading (the
\* usage failure when every dependency resolved, the missing-dependency
\* failure otherwise), the working directory is never created, no pipeline
\* stage is invoked, and the only external processes started are the
\* preflight `which` lookups, at most one per required executable.
C8_FailsBeforeAnyStage ==
  (argv.iso = "" \/ argv.image = "") =>
    /\ pc \in {"preflight", "config", "exited"}
    /\ invoked = <<>>
    /\ ~dirCreated
    /\ Len(execs) <= Len(processList)
    /\ \A k \in 1..Len(execs) : execs[k] = Exec("which", processList[k])
    /\ pc = "exited" =>
         /\ exitCode = 1
         /\ (exitReason = "usage") <=> AllResolvable

\* Configuration loading has failed on an empty image identifier, after the
\* three preflight lookups.
C8_Witness ==
  /\ argv.iso # ""
  /\ argv.image = ""
  /\ exitReason = "usage"
  /\ Len(execs) = Len(processList)

\* C9: if any executable of processList is unresolvable, the program exits
\* nonzero at the first unresolved name, before newConfigFromFlags and
\* newInstaller are called: no directory is created, no stage is invoked.
C9_MissingDependencyStopsEarly ==
  ~AllResolvable =>
    /\ pc \in {"preflight", "exited"}
    /\ config = NoConfig
    /\ ~dirCreated
    /\ invoked = <<>>
    /\ pfIdx <= FirstMissing
    /\ pc = "exited" =>
         /\ exitCode = 1
         /\ exitReason = "missing:" \o processList[FirstMissing]
         /\ Len(execs) = FirstMissing

\* The last executable of the list is the only one missing and the program
\* has exited on it.
C9_Witness ==
  /\ resolvable = {"docker", "qemu-system-x86_64"}
  /\ exitReason = "missing:qemu-img"
  /\ Len(execs) = 3

\* C10: the compress stage is invoked iff compression is configured and
\* create and run succeeded; without compression the build stage directly
\* follows a successful run stage and the image is never converted.
C10_CompressIffConfigured ==
  /\ "compress" \in Range(invoked) =>
       (config.compress /\ stageErr["create"] = "nil" /\ stageErr["run"] = "nil")
  /\ (installRet # "none" /\ config.compress
        /\ stageErr["create"] = "nil" /\ stageErr["run"] = "nil")
       => "compress" \in Range(invoked)
  /\ ~config.compress =>
       /\ \A k \in 1..Len(execs) : execs[k].cmd # "qemu-img convert"
       /\ \A k \in 1..Len(invoked) :
            invoked[k] = "build" =>
              (k > 1 /\ invoked[k - 1] = "run" /\ stageErr["run"] = "nil")

\* C11: if delivering the interrupt to the emulator failed, the program has
\* terminated with a nonzero exit code once it has terminated, whichever
\* point the main flow had reached when the delivery failed.
C11_SignalFailureIsFatal ==
  (pc = "exited" /\ sigRes # "nil") => exitCode # 0

\* C12: the exit code is 0 exactly when preflight passed, the configuration
\* was valid, the working directory was created and every applicable stage
\* succeeded; it is nonzero on any preflight or pipeline failure.  (A failed
\* signal delivery counts as a pipeline failure here, so the nonzero exit it
\* causes is not held against the claim.)
C12_ExitCodeZeroIffSuccess ==
  LET success ==
        /\ AllResolvable
        /\ argv.iso # "" /\ argv.image # ""
        /\ dirCreated
        /\ \A s \in Applicable : stageErr[s] = "nil"
  IN pc = "exited" =>
       /\ exitCode = 0 => success
       /\ (success /\ sigRes = "nil") => exitCode = 0

\* C13: in the run stage the interrupt is sent only after one line of
\* operator input has been read, at most once per run, and runMachine
\* returns (after a successful start) only once the emulator has exited and
\* been waited for.
C13_SignalAfterInputOnce ==
  /\ signals <= 1
  /\ signals >= 1 => input = "line"
  /\ runRet \notin {"none", "ErrStart"} => proc = "reaped"

\* C14: the main flow and the input-wait goroutine share no mutable state but
\* the process handle, so the error runMachine returns after a successful
\* start is exactly the result of cmd.Wait, never a value the goroutine wrote.
C14_ReturnIsWaitResult ==
  runRet \notin {"none", "ErrStart"} => runRet = procStatus

\* C15: if the emulator exits on its own before any operator input is given,
\* the pipeline goes on and the input-wait goroutine never changes the
\* outcome of the later stages or of Install: it never ends the process.
C15_OwnExitGoroutineHarmless ==
  ownExit => exitReason # "signalFatal"

\* C16: Install eventually finishes (it returns or the process ends) unless
\* the emulator keeps running for ever while the main flow waits for it: with
\* every tool invocation terminating, nothing else blocks the pipeline.
C16_InstallFinishes ==
  \/ <>(installRet # "none" \/ pc = "exited")
  \/ <>[](pc = "wait" /\ proc = "running")

\* Install returned after the emulator exited on its own, with no operator
\* input ever read.
C16_Witness ==
  /\ installRet = "nil"
  /\ ownExit
  /\ input = "none"

\* C17: the working directory exists throughout every pipeline stage: it was
\* created before the first stage starts and it is removed only after the
\* last invoked stage has finished, when Install returns.
C17_DirExistsDuringStages ==
  /\ pc \in {"create", "run", "wait", "runReturn", "compress", "build",
              "push", "defer"} => (dirExists /\ contextDir # "")
  /\ invoked # <<>> => dirCreated
  /\ (dirCreated /\ ~dirExists) => installRet # "none"

\* All five stages have run and the directory is still there: Install is
\* about to return.
C17_Witness ==
  /\ pc = "defer"
  /\ Len(invoked) = 5
  /\ dirExists
  /\ fs[dockerFilename] # Absent

\* C18: the Dockerfile is written into the working directory before docker
\* build is started; if writing it fails, neither docker build nor docker
\* push is started and Install returns the write error.
C18_DescriptorBeforeBuild ==
  /\ (\E k \in 1..Len(execs) : execs[k].cmd = "docker build") => descBefore
  /\ stageErr["build"] = "ErrWriteFile" =>
       /\ \A k \in 1..Len(execs) :
            execs[k].cmd \notin {"docker build", "docker push"}
       /\ "push" \notin Range(invoked)
       /\ installRet # "none" => installRet = "ErrWriteFile"

\* Writing the Dockerfile failed and Install has returned.
C18_Witness ==
  /\ stageErr["build"] = "ErrWriteFile"
  /\ installRet = "ErrWriteFile"
  /\ fs[dockerFilename] = Absent

\* C19: if creating the temporary working directory fails, the program
\* terminates with a nonzero exit without invoking any pipeline stage.
C19_TempDirFailureStopsProgram ==
  newErr # "nil" =>
    /\ pc \in {"installerCheck", "exited"}
    /\ invoked = <<>>
    /\ ~dirCreated
    /\ \A k \in 1..Len(execs) : execs[k].cmd = "which"
    /\ pc = "exited" => (exitCode = 1 /\ exitReason = "newInstaller")

\* ioutil.TempDir failed and main has ended the process.
C19_Witness ==
  /\ newErr = "ErrTempDir"
  /\ contextDir = ""
  /\ pc = "exited"

====
